---- MODULE Spec2Model ----
(***************************************************************************)
(* A model of pymerger: merge_data (src/pymerger.py) and the assemblers    *)
(* DefaultAssembler and UniqueRegexpAssembler (src/assemblers.py).         *)
(*                                                                         *)
(* Data.  A YAML/JSON-like object (datatypes.DataTypes) is a record        *)
(*   [kind, s, items]                                                      *)
(* kind is the Python type name ("dict", "list", "str", "int", "float",    *)
(* "bool", "NoneType");  for a scalar, s is what Python's str() gives for  *)
(* it ("1" for the int 1 and for the str "1", "None" for None) and items   *)
(* is empty;  for a dict, items is the sequence of its [key, val] entries  *)
(* in insertion order;  for a list, items is the sequence of its elements. *)
(*                                                                         *)
(* Keys.  A dict key is [sha, s]:  sha = FALSE is the plain string s,      *)
(* sha = TRUE is the string '_' + sha256(s).hexdigest() + '_'.  SHA-256 is *)
(* taken to be injective (no collisions), and a plain key of the model is  *)
(* never of the form /^_[a-f0-9]{64}_$/ (the plain keys are short words);  *)
(* a key of that form written by a user is a key with sha = TRUE.          *)
(*                                                                         *)
(* Paths.  merge_data builds the path string '/' seg '/' seg '/' ...; the  *)
(* model keeps the sequence of its segments, which is the same information *)
(* as long as no key contains '/' (none of the model's keys does).         *)
(***************************************************************************)
EXTENDS Integers, Sequences, FiniteSets, TLC

VARIABLES
    objs,           \* the documents of the call, as values
    assembler,      \* the assembler of the call
    pc,             \* the statement of merge_data to run next
    idx,            \* the document the loop of merge_data is at
    merged_data,    \* the local of merge_data, as a value
    result,         \* what merge_data returned, as a value
    raised,         \* what merge_data raised
    calls,          \* the calls made to the assembler
    heap,           \* the store: Python's dict and list objects
    args,           \* the references to the documents of the call
    merged_ref,     \* the reference that merged_data holds
    result_ref,     \* the reference that merge_data returned
    ctor,           \* the class of the assembler and where its constructor is
    conv            \* a call of assembler.converter on its own

vars == <<objs, assembler, pc, idx, merged_data, result, raised, calls,
          heap, args, merged_ref, result_ref, ctor, conv>>

-----------------------------------------------------------------------------
(* datatypes.DataTypes *)

NoneV == [kind |-> "NoneType", s |-> "None", items |-> <<>>]
BoolV(b) == [kind |-> "bool", s |-> IF b THEN "True" ELSE "False", items |-> <<>>]
IntV(n) == [kind |-> "int", s |-> ToString(n), items |-> <<>>]
FloatV(repr) == [kind |-> "float", s |-> repr, items |-> <<>>]
StrV(str) == [kind |-> "str", s |-> str, items |-> <<>>]
DictV(entries) == [kind |-> "dict", s |-> "", items |-> entries]
ListV(elems) == [kind |-> "list", s |-> "", items |-> elems]

Key(str) == [sha |-> FALSE, s |-> str]
Token(preimage) == [sha |-> TRUE, s |-> preimage]
Entry(k, v) == [key |-> k, val |-> v]

IsDict(data) == data.kind = "dict"
IsList(data) == data.kind = "list"
IsScalar(data) == ~IsDict(data) /\ ~IsList(data)

\* dict.keys(), in insertion order
Keys(data) == [n \in 1..Len(data.items) |-> data.items[n].key]
KeySet(data) == {data.items[n].key : n \in 1..Len(data.items)}
HasKey(data, k) == k \in KeySet(data)
\* data[k]
Get(data, k) == (CHOOSE e \in {data.items[n] : n \in 1..Len(data.items)} : e.key = k).val

\* dict.update({k: v}): an existing key keeps its place and takes the new
\* value, a new key goes to the end
Update(entries, k, v) ==
    IF \E n \in 1..Len(entries) : entries[n].key = k
    THEN [n \in 1..Len(entries) |->
            IF entries[n].key = k THEN Entry(k, v) ELSE entries[n]]
    ELSE Append(entries, Entry(k, v))

\* bool(data): Python's truth value
Truthy(data) ==
    CASE data.kind \in {"dict", "list"} -> Len(data.items) > 0
      [] data.kind = "NoneType" -> FALSE
      [] data.kind = "bool" -> data.s = "True"
      [] data.kind = "int" -> data.s # "0"
      [] data.kind = "float" -> data.s \notin {"0.0", "-0.0"}
      [] data.kind = "str" -> data.s # ""

\* the key as the string Python sees
KeyStr(k) == IF k.sha THEN "_sha256(" \o k.s \o ")_" ELSE k.s

RECURSIVE StrOf(_), ReprOf(_), JoinEntries(_, _), JoinElems(_, _)
\* str(data), as in the f-string f'{data}+{path}'
StrOf(data) ==
    CASE IsDict(data) -> "{" \o JoinEntries(data.items, 1) \o "}"
      [] IsList(data) -> "[" \o JoinElems(data.items, 1) \o "]"
      [] OTHER -> data.s
\* repr(data): what str() of a container shows for its members
ReprOf(data) == IF data.kind = "str" THEN "'" \o data.s \o "'" ELSE StrOf(data)
JoinEntries(entries, n) ==
    IF n > Len(entries) THEN ""
    ELSE "'" \o KeyStr(entries[n].key) \o "': " \o ReprOf(entries[n].val)
         \o (IF n < Len(entries) THEN ", " ELSE "")
         \o JoinEntries(entries, n + 1)
JoinElems(elems, n) ==
    IF n > Len(elems) THEN ""
    ELSE ReprOf(elems[n]) \o (IF n < Len(elems) THEN ", " ELSE "")
         \o JoinElems(elems, n + 1)

RECURSIVE PathStr(_)
\* the path string of a sequence of segments
PathStr(path) ==
    IF path = <<>> THEN "/"
    ELSE PathStr(SubSeq(path, 1, Len(path) - 1)) \o path[Len(path)] \o "/"

\* f'_{i}_', the segment of the list element i (from 0)
IndexSeg(n) == "_" \o ToString(n) \o "_"

-----------------------------------------------------------------------------
(* assemblers.py *)

DefaultAssembler == [cls |-> "DefaultAssembler", keys_paths_dict |-> <<>>]
UniqueRegexpAssembler(keys_paths_dict) ==
    [cls |-> "UniqueRegexpAssembler", keys_paths_dict |-> keys_paths_dict]

\* A regular expression of keys_paths_dict, of the shape
\*   \/seg\/...\/seg\/      (more = FALSE)
\*   \/seg\/...\/seg\/.+    (more = TRUE)
Regexp(prefix, more) == [prefix |-> prefix, more |-> more]

\* re.match(path_regexp, path): anchored at the start of path only
Match(path_regexp, path) ==
    /\ Len(path) >= Len(path_regexp.prefix) + (IF path_regexp.more THEN 1 ELSE 0)
    /\ SubSeq(path, 1, Len(path_regexp.prefix)) = path_regexp.prefix

\* DefaultAssembler.converter that returns the text it should hash
DefaultConverterUnhashed(data, path) == Key(StrOf(data) \o "+" \o PathStr(path))

\* DefaultAssembler.converter
DefaultConverter(data, path) == Token(StrOf(data) \o "+" \o PathStr(path))

\* DefaultAssembler.finder
DefaultFinder(keys) == \A n \in 1..Len(keys) : keys[n].sha

\* DefaultAssembler.handler without the test of obj2: the last one wins
DefaultHandlerLastWins(obj1, obj2) == obj2

\* DefaultAssembler.handler
DefaultHandler(obj1, obj2) == IF Truthy(obj2) THEN obj2 ELSE obj1

\* _get_unique_key_by_regexp_path that matches the path of the list, not of
\* its element
GetUniqueKeyByListPath(asm, path) ==
    LET d == asm.keys_paths_dict
        list_path == IF path = <<>> THEN <<>> ELSE SubSeq(path, 1, Len(path) - 1)
        hits == {n \in 1..Len(d) : Match(d[n].regexp, list_path)}
    IN  IF hits = {} THEN ""
        ELSE d[CHOOSE n \in hits : \A m \in hits : n <= m].unique_key

\* UniqueRegexpAssembler._get_unique_key_by_regexp_path: the unique key of the
\* first regular expression that matches, "" for None
GetUniqueKeyByRegexpPath(asm, path) ==
    LET d == asm.keys_paths_dict
        hits == {n \in 1..Len(d) : Match(d[n].regexp, path)}
    IN  IF hits = {} THEN ""
        ELSE d[CHOOSE n \in hits : \A m \in hits : n <= m].unique_key

\* path.split('/')[0:-2] joined by '/', plus '/'
BaseListPath(path) ==
    IF path = <<>> THEN <<>> ELSE SubSeq(path, 1, Len(path) - 1)

\* data[key] for a str key: the value of a dict that has the key, KeyError
\* of a dict that has not, TypeError of a list, a str and the other scalars
GetItem(data, key) ==
    IF IsDict(data)
    THEN IF HasKey(data, Key(key))
         THEN [raised |-> "none", val |-> Get(data, Key(key))]
         ELSE [raised |-> "KeyError", val |-> NoneV]
    ELSE [raised |-> "TypeError", val |-> NoneV]

\* except KeyError: alone
ExceptKeyError == {"KeyError"}
\* except (TypeError, KeyError):
ExceptOfConverter == {"TypeError", "KeyError"}

\* UniqueRegexpAssembler.converter: the key it returns (hex_hash), or what it
\* raises
UniqueConverterRun(asm, data, path) ==
    LET base_list_path == BaseListPath(path)
        key_by_path == GetUniqueKeyByRegexpPath(asm, path)
        unique_value == GetItem(data, key_by_path)
    IN  IF key_by_path # ""
        THEN IF unique_value.raised = "none"
             THEN [raised |-> "none",
                   hex_hash |-> Token(StrOf(unique_value.val) \o "+"
                                      \o PathStr(base_list_path))]
             ELSE IF unique_value.raised \in ExceptOfConverter
             THEN [raised |-> "none", hex_hash |-> DefaultConverter(data, path)]
             ELSE [raised |-> unique_value.raised, hex_hash |-> Key("")]
        ELSE [raised |-> "none", hex_hash |-> DefaultConverter(data, path)]

\* UniqueRegexpAssembler.converter
UniqueConverter(asm, data, path) == UniqueConverterRun(asm, data, path).hex_hash

\* assembler.converter / finder / handler of the instance in use
Converter(asm, data, path) ==
    IF asm.cls = "UniqueRegexpAssembler"
    THEN UniqueConverter(asm, data, path)
    ELSE DefaultConverter(data, path)
Finder(asm, keys) == DefaultFinder(keys)
Handler(asm, obj1, obj2) == DefaultHandler(obj1, obj2)
\* assembler.converter(data, path): the key it returns, or what it raises
ConverterRun(asm, data, path) ==
    IF asm.cls = "UniqueRegexpAssembler"
    THEN UniqueConverterRun(asm, data, path)
    ELSE [raised |-> "none", hex_hash |-> DefaultConverter(data, path)]

-----------------------------------------------------------------------------
(* pymerger.py *)

RECURSIVE GetConvertedData(_, _, _), ConvertDictItems(_, _, _, _, _),
          ConvertListItems(_, _, _, _, _)
\* _get_converted_data
GetConvertedData(data, path, asm) ==
    CASE IsDict(data) -> DictV(ConvertDictItems(data.items, 1, <<>>, path, asm))
      [] IsList(data) -> DictV(ConvertListItems(data.items, 1, <<>>, path, asm))
      [] OTHER -> data
\* the loop over data.keys(), from the n-th key on
ConvertDictItems(entries, n, converted, path, asm) ==
    IF n > Len(entries) THEN converted
    ELSE ConvertDictItems(entries, n + 1,
            Update(converted, entries[n].key,
                   GetConvertedData(entries[n].val,
                                    Append(path, KeyStr(entries[n].key)), asm)),
            path, asm)
\* ConvertListItems with the key made from the path of the list, not of the
\* element (converter(item, path))
ConvertListItemsListPath(elems, n, converted, path, asm) ==
    IF n > Len(elems) THEN converted
    ELSE LET item_path == Append(path, IndexSeg(n - 1))
         IN  ConvertListItems(elems, n + 1,
                Update(converted, Converter(asm, elems[n], path),
                       GetConvertedData(elems[n], item_path, asm)),
                path, asm)

\* the loop over enumerate(data), from the n-th element on
ConvertListItems(elems, n, converted, path, asm) ==
    IF n > Len(elems) THEN converted
    ELSE LET item_path == Append(path, IndexSeg(n - 1))
         IN  ConvertListItems(elems, n + 1,
                Update(converted, Converter(asm, elems[n], item_path),
                       GetConvertedData(elems[n], item_path, asm)),
                path, asm)

RECURSIVE GetRegularData(_, _)
\* _get_regular_data
GetRegularData(data, asm) ==
    IF IsDict(data)
    THEN IF Finder(asm, Keys(data))
         THEN ListV([n \in 1..Len(data.items) |->
                        GetRegularData(data.items[n].val, asm)])
         ELSE DictV([n \in 1..Len(data.items) |->
                        Entry(data.items[n].key,
                              GetRegularData(data.items[n].val, asm))])
    ELSE data

RECURSIVE MergeConvertedData(_, _, _), MergeItems(_, _, _, _, _)
\* _merge_converted_data
MergeConvertedData(obj1, obj2, asm) ==
    IF IsDict(obj1) /\ IsDict(obj2)
    THEN DictV(MergeItems(obj1, obj2.items, 1, obj1.items, asm))
    ELSE Handler(asm, obj1, obj2)
\* the loop over obj2_keys, from the n-th key on; merged starts as obj1.copy()
MergeItems(obj1, entries2, n, merged, asm) ==
    IF n > Len(entries2) THEN merged
    ELSE LET key == entries2[n].key
         IN  MergeItems(obj1, entries2, n + 1,
                IF HasKey(obj1, key)
                THEN Update(merged, key,
                            MergeConvertedData(Get(obj1, key), entries2[n].val, asm))
                ELSE Update(merged, key, entries2[n].val),
                asm)

-----------------------------------------------------------------------------
(* pymerger.py on Python's objects.  A dict or a list is an object of the    *)
(* store, [kind, items], known by its address (its index in the store), and  *)
(* its items hold references [ref |-> address] to objects or, for scalars,   *)
(* which are immutable, the scalar itself.  dict.update and list.append      *)
(* change the object at an address in place; whoever holds a reference to    *)
(* that address sees the change.                                             *)

Ref(a) == [ref |-> a]
IsRef(v) == "ref" \in DOMAIN v
\* isinstance(v, dict), isinstance(v, list)
IsDictAt(h, v) == IsRef(v) /\ h[v.ref].kind = "dict"
IsListAt(h, v) == IsRef(v) /\ h[v.ref].kind = "list"

RECURSIVE Deref(_, _)
\* the value that a reference of the store stands for
Deref(h, v) ==
    IF ~IsRef(v) THEN v
    ELSE LET o == h[v.ref]
         IN  IF o.kind = "dict"
             THEN DictV([n \in 1..Len(o.items) |->
                            Entry(o.items[n].key, Deref(h, o.items[n].val))])
             ELSE ListV([n \in 1..Len(o.items) |-> Deref(h, o.items[n])])

RECURSIVE Reach(_, _)
\* the addresses of the objects that a reference leads to
Reach(h, v) ==
    IF ~IsRef(v) THEN {}
    ELSE LET o == h[v.ref]
         IN  {v.ref} \cup UNION {Reach(h, IF o.kind = "dict" THEN o.items[n].val
                                          ELSE o.items[n]) : n \in 1..Len(o.items)}

RECURSIVE Load(_, _), LoadItems(_, _, _, _)
\* a document as the caller built it: every dict and list an object of its own
Load(h, data) ==
    IF IsScalar(data) THEN [heap |-> h, val |-> data]
    ELSE LET r == LoadItems(h, data, 1, <<>>)
         IN  [heap |-> Append(r.heap, [kind |-> data.kind, items |-> r.val]),
              val |-> Ref(Len(r.heap) + 1)]
LoadItems(h, data, n, done) ==
    IF n > Len(data.items) THEN [heap |-> h, val |-> done]
    ELSE LET r == Load(h, IF IsDict(data) THEN data.items[n].val ELSE data.items[n])
         IN  LoadItems(r.heap, data, n + 1,
                Append(done, IF IsDict(data) THEN Entry(data.items[n].key, r.val)
                             ELSE r.val))

RECURSIVE LoadArgs(_, _, _, _, _)
\* the arguments *objs; with shared, equal arguments are one and the same object
LoadArgs(h, os, n, done, shared) ==
    IF n > Len(os) THEN [heap |-> h, val |-> done]
    ELSE LET same == {m \in 1..(n - 1) : os[m] = os[n]}
         IN  IF shared /\ same # {}
             THEN LoadArgs(h, os, n + 1, Append(done, done[CHOOSE m \in same : TRUE]), shared)
             ELSE LET r == Load(h, os[n])
                  IN  LoadArgs(r.heap, os, n + 1, Append(done, r.val), shared)

\* the object at address a after .update({k: v})
UpdateAt(h, a, k, v) == [h EXCEPT ![a].items = Update(@, k, v)]
\* the object at address a after .append(v)
AppendAt(h, a, v) == [h EXCEPT ![a].items = Append(@, v)]

RECURSIVE GetConvertedDataAt(_, _, _, _), ConvertDictAt(_, _, _, _, _, _),
          ConvertListAt(_, _, _, _, _, _)
\* the loop over data.keys(), from the n-th key on, filling the dict at dst
ConvertDictAt(h, src, n, dst, path, asm) ==
    IF n > Len(h[src].items) THEN h
    ELSE LET e == h[src].items[n]
             r == GetConvertedDataAt(h, e.val, Append(path, KeyStr(e.key)), asm)
         IN  ConvertDictAt(UpdateAt(r.heap, dst, e.key, r.val), src, n + 1, dst, path, asm)
\* the loop over enumerate(data), from the n-th element on
ConvertListAt(h, src, n, dst, path, asm) ==
    IF n > Len(h[src].items) THEN h
    ELSE LET item == h[src].items[n]
             item_path == Append(path, IndexSeg(n - 1))
             r == GetConvertedDataAt(h, item, item_path, asm)
         IN  ConvertListAt(
                UpdateAt(r.heap, dst, Converter(asm, Deref(h, item), item_path), r.val),
                src, n + 1, dst, path, asm)

\* _get_converted_data that converts a dict in place (converted_data = data
\* instead of converted_data = {})
GetConvertedDataInPlace(h, data, path, asm) ==
    IF IsDictAt(h, data)
    THEN [heap |-> ConvertDictAt(h, data.ref, 1, data.ref, path, asm), val |-> data]
    ELSE IF IsListAt(h, data)
    THEN LET new == Len(h) + 1
         IN  [heap |-> ConvertListAt(Append(h, [kind |-> "dict", items |-> <<>>]),
                                     data.ref, 1, new, path, asm),
              val |-> Ref(new)]
    ELSE [heap |-> h, val |-> data]

\* _get_converted_data: converted_data = {} is a new object
GetConvertedDataAt(h, data, path, asm) ==
    LET new == Len(h) + 1
        h1 == Append(h, [kind |-> "dict", items |-> <<>>])
    IN  IF IsDictAt(h, data)
        THEN [heap |-> ConvertDictAt(h1, data.ref, 1, new, path, asm), val |-> Ref(new)]
        ELSE IF IsListAt(h, data)
        THEN [heap |-> ConvertListAt(h1, data.ref, 1, new, path, asm), val |-> Ref(new)]
        ELSE [heap |-> h, val |-> data]

RECURSIVE GetRegularDataAt(_, _, _), RegularItemsAt(_, _, _, _, _, _)
\* _get_regular_data: regular_data = [] or {} is a new object
GetRegularDataAt(h, data, asm) ==
    IF IsDictAt(h, data)
    THEN LET new == Len(h) + 1
             found == Finder(asm, Keys(h[data.ref]))
             h1 == Append(h, [kind |-> IF found THEN "list" ELSE "dict", items |-> <<>>])
         IN  [heap |-> RegularItemsAt(h1, data.ref, 1, new, found, asm), val |-> Ref(new)]
    ELSE [heap |-> h, val |-> data]
\* the loops over data.keys(), from the n-th key on
RegularItemsAt(h, src, n, dst, found, asm) ==
    IF n > Len(h[src].items) THEN h
    ELSE LET e == h[src].items[n]
             r == GetRegularDataAt(h, e.val, asm)
         IN  RegularItemsAt(
                IF found THEN AppendAt(r.heap, dst, r.val)
                ELSE UpdateAt(r.heap, dst, e.key, r.val),
                src, n + 1, dst, found, asm)

\* assembler.handler: DefaultAssembler.handler returns one of its arguments
HandlerAt(h, asm, obj1, obj2) == IF Truthy(Deref(h, obj2)) THEN obj2 ELSE obj1

RECURSIVE MergeConvertedDataAt(_, _, _, _), MergeItemsAt(_, _, _, _, _, _)
\* _merge_converted_data: obj1.copy() is a new object with the items of obj1
MergeConvertedDataAt(h, obj1, obj2, asm) ==
    IF IsDictAt(h, obj1) /\ IsDictAt(h, obj2)
    THEN LET new == Len(h) + 1
         IN  [heap |-> MergeItemsAt(Append(h, h[obj1.ref]), obj1.ref, obj2.ref, 1, new, asm),
              val |-> Ref(new)]
    ELSE [heap |-> h, val |-> HandlerAt(h, asm, obj1, obj2)]
\* the loop over obj2_keys, from the n-th key on
MergeItemsAt(h, src1, src2, n, dst, asm) ==
    IF n > Len(h[src2].items) THEN h
    ELSE LET e == h[src2].items[n]
         IN  IF HasKey(h[src1], e.key)
             THEN LET r == MergeConvertedDataAt(h, Get(h[src1], e.key), e.val, asm)
                  IN  MergeItemsAt(UpdateAt(r.heap, dst, e.key, r.val),
                                   src1, src2, n + 1, dst, asm)
             ELSE MergeItemsAt(UpdateAt(h, dst, e.key, e.val),
                               src1, src2, n + 1, dst, asm)

-----------------------------------------------------------------------------
(* The calls merge_data makes to the assembler, counted per method *)

RECURSIVE SumOver(_, _, _)
SumOver(f, xs, n) == IF n > Len(xs) THEN 0 ELSE f[n] + SumOver(f, xs, n + 1)

RECURSIVE ConverterCalls(_)
\* assembler.converter is called once per list element (pymerger.py line 97)
ConverterCalls(data) ==
    CASE IsDict(data) ->
            SumOver([n \in 1..Len(data.items) |-> ConverterCalls(data.items[n].val)],
                    data.items, 1)
      [] IsList(data) ->
            Len(data.items)
            + SumOver([n \in 1..Len(data.items) |-> ConverterCalls(data.items[n])],
                      data.items, 1)
      [] OTHER -> 0

RECURSIVE FinderCalls(_)
\* assembler.finder is called once per dict of the converted data (line 133)
FinderCalls(data) ==
    IF IsDict(data)
    THEN 1 + SumOver([n \in 1..Len(data.items) |-> FinderCalls(data.items[n].val)],
                     data.items, 1)
    ELSE 0

RECURSIVE HandlerCalls(_, _)
\* assembler.handler is called once per pair that is not two dicts (line 202)
HandlerCalls(obj1, obj2) ==
    IF IsDict(obj1) /\ IsDict(obj2)
    THEN SumOver([n \in 1..Len(obj2.items) |->
                    IF HasKey(obj1, obj2.items[n].key)
                    THEN HandlerCalls(Get(obj1, obj2.items[n].key), obj2.items[n].val)
                    ELSE 0],
                 obj2.items, 1)
    ELSE 1

NoCalls == [converter |-> 0, finder |-> 0, handler |-> 0]

-----------------------------------------------------------------------------
(* The construction of an assembler: a class derived from AbstractAssembler  *)
(* is [name, converter, finder, handler, keys_paths_dict]; a method is       *)
(* [abstract, argcount]: argcount is the number of positional parameters of  *)
(* its def, self included (__code__.co_argcount), and a class that does not  *)
(* define a method has the abstractmethod of AbstractAssembler in its place. *)

Method(argcount) == [abstract |-> FALSE, argcount |-> argcount]
\* AbstractAssembler: converter(self, data, path), finder(self, keys),
\* handler(self, obj1, obj2), each an abstractmethod
AbstractAssembler ==
    [name |-> "AbstractAssembler",
     converter |-> [abstract |-> TRUE, argcount |-> 3],
     finder |-> [abstract |-> TRUE, argcount |-> 2],
     handler |-> [abstract |-> TRUE, argcount |-> 3],
     keys_paths_dict |-> <<>>]
\* class DefaultAssembler(AbstractAssembler) defines the three methods
DefaultAssemblerClass ==
    [AbstractAssembler EXCEPT !.name = "DefaultAssembler", !.converter = Method(3),
                              !.finder = Method(2), !.handler = Method(3)]
\* class UniqueRegexpAssembler(DefaultAssembler) defines converter, and its
\* __init__ keeps keys_paths_dict before super().__init__()
UniqueRegexpAssemblerClass(keys_paths_dict) ==
    [DefaultAssemblerClass EXCEPT !.name = "UniqueRegexpAssembler",
                                  !.converter = Method(3),
                                  !.keys_paths_dict = keys_paths_dict]
\* the class of an assembler of the two classes above
ClassOf(asm) ==
    IF asm.cls = "DefaultAssembler" THEN DefaultAssemblerClass
    ELSE UniqueRegexpAssemblerClass(asm.keys_paths_dict)

\* no assembler: the constructor has not returned
NoAssembler == [cls |-> "none", keys_paths_dict |-> <<>>]
\* the instance the constructor of a class returns
Instance(cls) == [cls |-> cls.name, keys_paths_dict |-> cls.keys_paths_dict]

MethodNames == {"converter", "finder", "handler"}
\* a class that is not an ABC: nothing is abstract
NoAbstractMethods(cls) == {}
\* cls.__abstractmethods__
AbstractMethods(cls) == {m \in MethodNames : cls[m].abstract}

\* _validate_methods_args that lets a method with fewer parameters pass
ValidateMethodsArgsAtMost(method, args_count) == method.argcount <= args_count
\* _validate_methods_args: TRUE when it returns, FALSE when it raises
ValidateMethodsArgs(method, args_count) == method.argcount = args_count

\* one step of the constructor: on to the next step, or the error raised
Step(ok, next, error) ==
    /\ ctor' = [ctor EXCEPT !.at = IF ok THEN next ELSE error]
    /\ UNCHANGED <<conv, objs, pc, idx, merged_data, result, raised, calls,
                   heap, args, merged_ref, result_ref>>

\* Cls(...): ABCMeta lets no class with abstract methods be instantiated
New ==
    /\ ctor.at = "new"
    /\ Step(AbstractMethods(ctor.cls) = {}, "converter", "TypeError")
    /\ UNCHANGED assembler
\* self._validate_methods_args(self.converter, 3)
ValidateConverter ==
    /\ ctor.at = "converter"
    /\ Step(ValidateMethodsArgs(ctor.cls.converter, 3), "finder",
            "AssemblerImplementationError")
    /\ UNCHANGED assembler
\* self._validate_methods_args(self.finder, 2)
ValidateFinder ==
    /\ ctor.at = "finder"
    /\ Step(ValidateMethodsArgs(ctor.cls.finder, 2), "handler",
            "AssemblerImplementationError")
    /\ UNCHANGED assembler
\* self._validate_methods_args(self.handler, 3); __init__ returns and the
\* caller has the instance
ValidateHandler ==
    /\ ctor.at = "handler"
    /\ LET ok == ValidateMethodsArgs(ctor.cls.handler, 3)
       IN  /\ Step(ok, "constructed", "AssemblerImplementationError")
           /\ assembler' = IF ok THEN Instance(ctor.cls) ELSE assembler
\* merge_data(*objs, assembler=assembler) with an instance of one of the two
\* classes of assemblers.py
Enter ==
    /\ ctor.at = "constructed"
    /\ pc = "construct"
    /\ assembler.cls \in {"DefaultAssembler", "UniqueRegexpAssembler"}
    /\ pc' = "args"
    /\ UNCHANGED <<conv, ctor, objs, assembler, idx, merged_data, result, raised, calls,
                   heap, args, merged_ref, result_ref>>

-----------------------------------------------------------------------------
(* merge_data, one action per statement *)

\* a local that has not been assigned yet
Unset == [kind |-> "unset", s |-> "", items |-> <<>>]

\* MergeTypes without the filter "if obj"
MergeTypesOfAll(os) == {os[n].kind : n \in 1..Len(os)}

\* set(type(obj) for obj in objs if obj)
MergeTypes(os) == {os[n].kind : n \in {m \in 1..Len(os) : Truthy(os[m])}}

\* CheckArgs with the comparison off by one (len(objs) < 1)
CheckArgsOffByOne ==
    /\ pc = "args"
    /\ IF Len(objs) < 1
       THEN pc' = "raised" /\ raised' = "AttributesError"
       ELSE pc' = "types" /\ raised' = raised
    /\ UNCHANGED <<conv, ctor, objs, assembler, idx, merged_data, result, calls,
                   heap, args, merged_ref, result_ref>>

\* if len(objs) < 2: raise AttributesError
CheckArgs ==
    /\ pc = "args"
    /\ IF Len(objs) < 2
       THEN pc' = "raised" /\ raised' = "AttributesError"
       ELSE pc' = "types" /\ raised' = raised
    /\ UNCHANGED <<conv, ctor, objs, assembler, idx, merged_data, result, calls,
                   heap, args, merged_ref, result_ref>>

\* merge_types = ...; if len(merge_types) > 1: raise TypeError
CheckTypes ==
    /\ pc = "types"
    /\ IF Cardinality(MergeTypes(objs)) > 1
       THEN pc' = "raised" /\ raised' = "TypeError"
       ELSE pc' = "convert" /\ raised' = raised
    /\ UNCHANGED <<conv, ctor, objs, assembler, idx, merged_data, result, calls,
                   heap, args, merged_ref, result_ref>>

\* merged_data = _get_converted_data(objs[0], '/', assembler)
ConvertFirst ==
    /\ pc = "convert"
    /\ merged_data' = GetConvertedData(objs[1], <<>>, assembler)
    /\ calls' = [calls EXCEPT !.converter = @ + ConverterCalls(objs[1])]
    /\ LET r == GetConvertedDataAt(heap, args[1], <<>>, assembler)
       IN  heap' = r.heap /\ merged_ref' = r.val
    /\ idx' = 2
    /\ pc' = "fold"
    /\ UNCHANGED <<conv, ctor, objs, assembler, result, raised, args, result_ref>>

\* MergeNext that merges each document into the first, not into merged_data
MergeNextIntoFirst ==
    /\ pc = "fold"
    /\ idx <= Len(objs)
    /\ LET converted == GetConvertedData(objs[idx], <<>>, assembler)
           first == GetConvertedData(objs[1], <<>>, assembler)
       IN  /\ merged_data' = MergeConvertedData(first, converted, assembler)
           /\ calls' = [calls EXCEPT
                          !.converter = @ + ConverterCalls(objs[idx]),
                          !.handler = @ + HandlerCalls(first, converted)]
    /\ LET c == GetConvertedDataAt(heap, args[idx], <<>>, assembler)
           f == GetConvertedDataAt(c.heap, args[1], <<>>, assembler)
           r == MergeConvertedDataAt(f.heap, f.val, c.val, assembler)
       IN  heap' = r.heap /\ merged_ref' = r.val
    /\ idx' = idx + 1
    /\ UNCHANGED <<conv, ctor, objs, assembler, pc, result, raised, args, result_ref>>

\* for obj in objs[1:]: merged_data = _merge_converted_data(merged_data,
\*     _get_converted_data(obj, '/', assembler), assembler)
MergeNext ==
    /\ pc = "fold"
    /\ idx <= Len(objs)
    /\ LET converted == GetConvertedData(objs[idx], <<>>, assembler)
       IN  /\ merged_data' = MergeConvertedData(merged_data, converted, assembler)
           /\ calls' = [calls EXCEPT
                          !.converter = @ + ConverterCalls(objs[idx]),
                          !.handler = @ + HandlerCalls(merged_data, converted)]
    /\ LET c == GetConvertedDataAt(heap, args[idx], <<>>, assembler)
           r == MergeConvertedDataAt(c.heap, merged_ref, c.val, assembler)
       IN  heap' = r.heap /\ merged_ref' = r.val
    /\ idx' = idx + 1
    /\ UNCHANGED <<conv, ctor, objs, assembler, pc, result, raised, args, result_ref>>

\* return _get_regular_data(merged_data, assembler)
Return ==
    /\ pc = "fold"
    /\ idx > Len(objs)
    /\ result' = GetRegularData(merged_data, assembler)
    /\ calls' = [calls EXCEPT !.finder = @ + FinderCalls(merged_data)]
    /\ LET r == GetRegularDataAt(heap, merged_ref, assembler)
       IN  heap' = r.heap /\ result_ref' = r.val
    /\ pc' = "returned"
    /\ UNCHANGED <<conv, ctor, objs, assembler, idx, merged_data, raised, args, merged_ref>>

RECURSIVE FoldConverted(_, _, _, _)
\* the loop of merge_data over objs[1:], from the n-th document on
FoldConverted(merged, os, n, asm) ==
    IF n > Len(os) THEN merged
    ELSE FoldConverted(
            MergeConvertedData(merged, GetConvertedData(os[n], <<>>, asm), asm),
            os, n + 1, asm)

\* merge_data(*os, assembler=asm) as a whole: what it raises, or what it
\* returns
MergeData(os, asm) ==
    IF Len(os) < 2 THEN [raised |-> "AttributesError", val |-> Unset]
    ELSE IF Cardinality(MergeTypes(os)) > 1 THEN [raised |-> "TypeError", val |-> Unset]
    ELSE [raised |-> "none",
          val |-> GetRegularData(
                    FoldConverted(GetConvertedData(os[1], <<>>, asm), os, 2, asm), asm)]

\* no call of the converter on its own
NoConv == [at |-> "none"]
\* assembler.converter(conv.data, conv.path) returns or raises
ConverterCall ==
    /\ conv.at = "call"
    /\ LET run == ConverterRun(assembler, conv.data, conv.path)
       IN  conv' = [conv EXCEPT !.at = IF run.raised = "none" THEN "returned" ELSE "raised",
                                !.raised = run.raised,
                                !.hex_hash = run.hex_hash]
    /\ UNCHANGED <<ctor, objs, assembler, pc, idx, merged_data, result, raised, calls,
                   heap, args, merged_ref, result_ref>>

Next == CheckArgs \/ CheckTypes \/ ConvertFirst \/ MergeNext \/ Return

\* asm = Cls(...) and then merge_data(*objs, assembler=asm)
NextConstruct ==
    \/ New \/ ValidateConverter \/ ValidateFinder \/ ValidateHandler \/ Enter
    \/ Next

\* the documents os of a call before its first statement; equal documents are
\* one object or objects of their own
Start(os) ==
    /\ \E shared \in BOOLEAN :
            LET r == LoadArgs(<<>>, os, 1, <<>>, shared)
            IN  heap = r.heap /\ args = r.val
    /\ merged_ref = Unset
    /\ result_ref = Unset
    /\ objs = os
    /\ idx = 0
    /\ merged_data = Unset
    /\ result = Unset
    /\ raised = "none"
    /\ calls = NoCalls

\* the state at the call merge_data(*os, assembler=asm)
Call(os, asm) ==
    /\ Start(os)
    /\ ctor = [cls |-> ClassOf(asm), at |-> "constructed"]
    /\ assembler = asm
    /\ pc = "args"
    /\ conv = NoConv

\* the state at asm = cls(...), ahead of merge_data(*os, assembler=asm)
Construct(cls, os) ==
    /\ Start(os)
    /\ ctor = [cls |-> cls, at |-> "new"]
    /\ assembler = NoAssembler
    /\ pc = "construct"
    /\ conv = NoConv

\* the state at the call asm.converter(data, path), outside merge_data
Convert(asm, data, path) ==
    /\ Start(<<>>)
    /\ ctor = [cls |-> ClassOf(asm), at |-> "constructed"]
    /\ assembler = asm
    /\ pc = "none"
    /\ conv = [at |-> "call", data |-> data, path |-> path,
               raised |-> "none", hex_hash |-> Key("")]

-----------------------------------------------------------------------------
(* The calls the model makes: the bounds and the documents *)

\* at most MaxArgs documents in one call
MaxArgs == 3
\* a list has at most MaxLen elements
MaxLen == 2
\* the ints are 0..MaxInt
MaxInt == 2

SeqsOf(S, n) == UNION {[1..k -> S] : k \in 0..n}

KeyA == Key("a")
KeyB == Key("b")

Ints == {IntV(n) : n \in 0..MaxInt}
Scalars == Ints \cup {NoneV, BoolV(TRUE), BoolV(FALSE), StrV(""), StrV("1"),
                      StrV("x"), FloatV("1.5")}

\* lists of scalars, of one type or mixed
ScalarLists == {ListV(q) : q \in SeqsOf({IntV(1), StrV("1")}, MaxLen)}

\* the values under a key of a dict
Values == {IntV(1), IntV(2), NoneV, DictV(<<>>), ListV(<<>>), ListV(<<IntV(1)>>),
           ListV(<<StrV("1")>>), DictV(<<Entry(KeyB, IntV(1))>>)}
FewValues == {IntV(1), DictV(<<>>), ListV(<<IntV(1)>>)}

Dicts ==
    {DictV(<<>>)}
    \cup {DictV(<<Entry(k, v)>>) : k \in {KeyA, KeyB}, v \in Values}
    \cup {DictV(<<Entry(KeyA, v), Entry(KeyB, w)>>) : v \in FewValues, w \in FewValues}
    \cup {DictV(<<Entry(KeyB, w), Entry(KeyA, v)>>) : v \in FewValues, w \in FewValues}

Docs == Scalars \cup ScalarLists \cup Dicts

\* a few documents of every kind, for the calls with more than two documents
FewDocs == {NoneV, IntV(1), StrV("x"), DictV(<<>>), DictV(<<Entry(KeyA, IntV(1))>>),
            ListV(<<IntV(1)>>)}

\* UniqueRegexpAssembler({r'\/users\/.+': 'user_id'}), as in the tests
UsersAssembler ==
    UniqueRegexpAssembler(
        <<[regexp |-> Regexp(<<"users">>, TRUE), unique_key |-> "user_id"]>>)

Inputs ==
    {<<>>}
    \cup {<<d>> : d \in Docs}
    \cup (Docs \X Docs)
    \cup UNION {[1..k -> FewDocs] : k \in 3..MaxArgs}

\* dicts of scalars, for the calls with two to MaxArgs dicts
ScalarDicts ==
    {DictV(<<>>), DictV(<<Entry(KeyB, IntV(1))>>),
     DictV(<<Entry(KeyB, IntV(1)), Entry(KeyA, StrV("x"))>>)}
    \cup {DictV(<<Entry(KeyA, v)>>) :
            v \in Ints \cup {NoneV, StrV(""), StrV("x"), BoolV(FALSE)}}

InitDicts ==
    \E os \in UNION {[1..k -> ScalarDicts] : k \in 2..MaxArgs} :
        Call(os, DefaultAssembler)

SpecDicts == InitDicts /\ [][Next]_vars

\* lists of scalars, at the top and under the key c
KeyC == Key("c")
ListElems == {IntV(1), IntV(2), StrV("1")}
ListDocs ==
    LET lists == {ListV(q) : q \in SeqsOf(ListElems, MaxLen)}
    IN  lists \cup {DictV(<<Entry(KeyC, l)>>) : l \in lists}

InitLists == \E os \in ListDocs \X ListDocs : Call(os, DefaultAssembler)

SpecLists == InitLists /\ [][Next]_vars

\* sequences of users under the key users, as in the test of the Keyed Strategy;
\* within one sequence no two users have the same user_id
KeyUsers == Key("users")
KeyUserId == Key("user_id")
UserIds == {IntV(1), IntV(2), StrV("1")}
Users ==
    {DictV(<<Entry(Key("name"), StrV("Alex"))>>)}
    \cup {DictV(<<Entry(KeyUserId, v), Entry(Key("name"), StrV("Alex"))>>) : v \in UserIds}
    \cup {DictV(<<Entry(KeyUserId, v), Entry(Key("surname"), StrV("Morgan"))>>) : v \in UserIds}
CarriesUserId(data) == IsDict(data) /\ HasKey(data, KeyUserId)
UniqueUserIds(elems) ==
    \A m, n \in 1..Len(elems) :
        /\ m # n
        /\ CarriesUserId(elems[m]) /\ CarriesUserId(elems[n])
        => Get(elems[m], KeyUserId) # Get(elems[n], KeyUserId)
UsersDocs ==
    {DictV(<<Entry(KeyUsers, ListV(q))>>) :
        q \in {u \in SeqsOf(Users, MaxLen) : UniqueUserIds(u)}}

InitUsers == \E os \in UsersDocs \X UsersDocs : Call(os, UsersAssembler)

SpecUsers == InitUsers /\ [][Next]_vars

\* documents to convert and bring back: those above, lists of lists and of
\* dicts, and sequences of users, with user_ids of one type, in which a
\* user_id may occur twice
IntUsers == {u \in Users : CarriesUserId(u) => Get(u, KeyUserId).kind = "int"}
NestedLists ==
    {ListV(<<ListV(<<IntV(1)>>), ListV(<<IntV(1)>>)>>),
     ListV(<<ListV(<<>>), ListV(<<>>)>>),
     ListV(<<DictV(<<Entry(KeyA, IntV(1))>>), DictV(<<Entry(KeyA, IntV(1))>>)>>),
     DictV(<<Entry(KeyA, ListV(<<ListV(<<NoneV, NoneV>>)>>))>>)}
    \cup {DictV(<<Entry(KeyUsers, ListV(<<ListV(<<u, v>>)>>))>>) :
            u \in IntUsers, v \in {DictV(<<Entry(KeyUserId, IntV(1))>>)}}
ConvertDocs ==
    Docs \cup NestedLists
    \cup {DictV(<<Entry(KeyUsers, ListV(q))>>) : q \in SeqsOf(IntUsers, MaxLen)}

InitConvert ==
    \E d \in ConvertDocs, e \in {NoneV, IntV(0), DictV(<<>>)},
       asm \in {DefaultAssembler, UsersAssembler} : Call(<<d, e>>, asm)

SpecConvert == InitConvert /\ [][Next]_vars

\* nested documents, whose dicts and lists hold dicts and lists, next to the
\* calls above: the successful and the failing, of zero to MaxArgs documents
DeepDocs ==
    NestedLists \cup UsersDocs
    \cup {DictV(<<Entry(KeyA, ListV(<<IntV(1)>>)),
                  Entry(KeyB, DictV(<<Entry(KeyB, ListV(<<StrV("x")>>))>>))>>)}
FewDeepDocs ==
    {DictV(<<Entry(KeyUsers, ListV(<<u>>))>>) : u \in IntUsers}
    \cup {DictV(<<>>), ListV(<<IntV(1)>>)}
FrameInputs ==
    Inputs \cup (DeepDocs \X FewDeepDocs) \cup (FewDeepDocs \X DeepDocs)
    \cup UNION {[1..k -> FewDeepDocs] : k \in 3..MaxArgs}

InitFrame ==
    \E os \in FrameInputs, asm \in {DefaultAssembler, UsersAssembler} : Call(os, asm)

SpecFrame == InitFrame /\ [][Next]_vars

\* a def has at most MaxParams positional parameters, self included
MaxParams == 4
\* the classes derived from AbstractAssembler: the two of assemblers.py and
\* those that define each method or leave it out
CustomClasses ==
    {[AbstractAssembler EXCEPT !.name = "Custom", !.converter = c, !.finder = f,
                               !.handler = h] :
        c \in {AbstractAssembler.converter} \cup {Method(n) : n \in 0..MaxParams},
        f \in {AbstractAssembler.finder} \cup {Method(n) : n \in 0..MaxParams},
        h \in {AbstractAssembler.handler} \cup {Method(n) : n \in 0..MaxParams}}
ShippedClasses == {DefaultAssemblerClass, ClassOf(UsersAssembler)}
Classes == ShippedClasses \cup CustomClasses

InitConstruct ==
    \E cls \in Classes, os \in {<<>>} \cup (FewDocs \X FewDocs) : Construct(cls, os)

SpecConstruct == InitConstruct /\ [][NextConstruct]_vars

\* calls of the converter of a UniqueRegexpAssembler: the assembler of the
\* users, one whose first regular expression names a key other than that of
\* its second, one without regular expressions and one that matches no users
KeyedAssemblers ==
    {UsersAssembler,
     UniqueRegexpAssembler(
        <<[regexp |-> Regexp(<<"users">>, TRUE), unique_key |-> "name"],
          [regexp |-> Regexp(<<"users">>, FALSE), unique_key |-> "user_id"]>>),
     UniqueRegexpAssembler(
        <<[regexp |-> Regexp(<<"a", IndexSeg(0)>>, FALSE), unique_key |-> "b"],
          [regexp |-> Regexp(<<"users">>, FALSE), unique_key |-> "user_id"]>>),
     UniqueRegexpAssembler(<<>>)}
ConverterData ==
    Users \cup Docs
    \cup {DictV(<<Entry(KeyUserId, v)>>) : v \in {NoneV, ListV(<<IntV(1)>>), DictV(<<>>)}}
ConverterPaths ==
    {<<>>, <<"users">>, <<"users", IndexSeg(0)>>, <<"users", IndexSeg(1)>>,
     <<"a", IndexSeg(0)>>, <<"a", "users", IndexSeg(0)>>,
     <<"users", IndexSeg(0), IndexSeg(0)>>, <<"users", IndexSeg(0), "a", IndexSeg(1)>>}

InitConverter ==
    \E asm \in KeyedAssemblers, data \in ConverterData, path \in ConverterPaths :
        Convert(asm, data, path)

SpecConverter == InitConverter /\ [][ConverterCall]_vars

\* documents with keyed lists: the users, lists in lists, and users with a
\* list of their own, merged with the assemblers above
KeyedDocs ==
    UsersDocs \cup NestedLists
    \cup {DictV(<<Entry(KeyUsers, ListV(<<DictV(<<Entry(KeyUserId, IntV(1)),
                                                 Entry(KeyA, ListV(q))>>)>>))>>) :
            q \in SeqsOf({IntV(1), DictV(<<Entry(KeyUserId, IntV(2))>>)}, MaxLen)}
    \cup {DictV(<<Entry(KeyA, ListV(<<DictV(<<Entry(KeyB, IntV(1))>>)>>))>>)}

InitKeyed ==
    \E d \in KeyedDocs, e \in FewDeepDocs \cup NestedLists, asm \in KeyedAssemblers :
        Call(<<d, e>>, asm)

SpecKeyed == InitKeyed /\ [][Next]_vars

\* calls with three documents whose lists meet: lists of 1 and 2, at the top
\* and under the key c, next to dicts and empty documents
FoldLists == {ListV(q) : q \in SeqsOf({IntV(1), IntV(2)}, MaxLen)}
FoldDocs ==
    FoldLists \cup {DictV(<<Entry(KeyC, l)>>) : l \in FoldLists}
    \cup {NoneV, DictV(<<>>), DictV(<<Entry(KeyC, DictV(<<>>))>>),
          DictV(<<Entry(KeyA, IntV(1))>>)}
FewFoldDocs ==
    {ListV(<<>>), ListV(<<IntV(1)>>), ListV(<<IntV(2)>>),
     DictV(<<Entry(KeyC, ListV(<<IntV(1)>>))>>), DictV(<<Entry(KeyC, ListV(<<IntV(2)>>))>>),
     DictV(<<Entry(KeyC, DictV(<<>>))>>), DictV(<<Entry(KeyA, IntV(2))>>),
     DictV(<<>>), NoneV}

\* dicts without lists with elements, with dicts and empty lists in them
FoldDicts ==
    {d \in Dicts : \A n \in 1..Len(d.items) :
                        IsList(d.items[n].val) => d.items[n].val.items = <<>>}
FewFoldDicts ==
    {DictV(<<Entry(KeyA, DictV(<<Entry(KeyB, IntV(1))>>))>>),
     DictV(<<Entry(KeyA, ListV(<<>>)), Entry(KeyC, IntV(0))>>),
     DictV(<<Entry(KeyB, NoneV), Entry(KeyA, DictV(<<>>))>>),
     DictV(<<Entry(KeyB, IntV(2))>>)}

InitFold ==
    \E d1 \in FoldDocs \cup FoldDicts, d2 \in FewFoldDocs \cup FewFoldDicts,
       d3 \in FewFoldDocs \cup FewFoldDicts :
        Call(<<d1, d2, d3>>, DefaultAssembler)

SpecFold == InitFold /\ [][Next]_vars

Init == \E os \in Inputs, asm \in {DefaultAssembler, UsersAssembler} : Call(os, asm)

Spec == Init /\ [][Next]_vars

-----------------------------------------------------------------------------
(* The claims *)

Returned == pc = "returned"
Past(labels) == pc \notin labels

\* the documents of the call that are not absent/empty ("if obj")
NonEmpty(os) == {n \in 1..Len(os) : Truthy(os[n])}

\* C10: a call with fewer than two documents (none or one) never gets past the
\* first check: it raises AttributesError (the ArityError), whatever the
\* document is, before the type check and before any call to the assembler.
C10_ArityGuard ==
    Len(objs) < 2 =>
        /\ pc \in {"args", "raised"}
        /\ pc = "raised" => raised = "AttributesError"
        /\ pc = "args" => raised = "none"
        /\ calls = NoCalls
        /\ result = Unset

C10_Witness ==
    /\ Len(objs) = 1
    /\ objs[1] = DictV(<<Entry(KeyA, IntV(1))>>)
    /\ pc = "raised"
    /\ raised = "AttributesError"

\* the kind of a document: Map, Sequence or Scalar-family
Family(data) ==
    CASE IsDict(data) -> "Map" [] IsList(data) -> "Sequence" [] OTHER -> "Scalar"

\* C9 as stated: merge raises TypeError if and only if the non-empty documents
\* span more than one kind among Map, Sequence and Scalar-family.
C9_ByFamily ==
    Len(objs) >= 2 /\ Past({"args", "types"}) =>
        (raised = "TypeError"
            <=> Cardinality({Family(objs[n]) : n \in NonEmpty(objs)}) > 1)

\* C9, amended: merge raises TypeError if and only if two of the non-empty
\* documents have different Python types (dict, list, str, int, float, bool);
\* empty documents never cause it, and when it is raised no method of the
\* assembler has been called and nothing has been merged.
C9_TypeGuard ==
    Len(objs) >= 2 /\ Past({"args", "types"}) =>
        /\ raised = "TypeError"
            <=> \E m, n \in NonEmpty(objs) : objs[m].kind # objs[n].kind
        /\ raised = "TypeError" =>
            pc = "raised" /\ calls = NoCalls /\ result = Unset /\ merged_data = Unset
        /\ raised # "TypeError" => raised = "none"

C9_Witness ==
    /\ objs = <<IntV(1), StrV("x")>>
    /\ pc = "raised"
    /\ raised = "TypeError"

\* the values of a container, and the nodes of a document at every depth
Children(data) ==
    CASE IsDict(data) -> {data.items[n].val : n \in 1..Len(data.items)}
      [] IsList(data) -> {data.items[n] : n \in 1..Len(data.items)}
      [] OTHER -> {}
RECURSIVE Nodes(_)
Nodes(data) == {data} \cup UNION {Nodes(c) : c \in Children(data)}

\* the keys of B that A does not have, in B's order
NewKeys(A, B) ==
    LET IsNew(k) == ~HasKey(A, k) IN SelectSeq(Keys(B), IsNew)

\* C1: for two Map documents A and B, merge(A, B) is a Map whose keys are A's
\* keys in A's order followed by the keys of B that A does not have, in B's
\* order, and a key that only one of them has carries that document's value
\* unchanged.
C1_MapUnion ==
    Returned /\ Len(objs) = 2 /\ IsDict(objs[1]) /\ IsDict(objs[2]) =>
        /\ IsDict(result)
        /\ Keys(result) = Keys(objs[1]) \o NewKeys(objs[1], objs[2])
        /\ \A k \in KeySet(objs[1]) \ KeySet(objs[2]) :
                Get(result, k) = Get(objs[1], k)
        /\ \A k \in KeySet(objs[2]) \ KeySet(objs[1]) :
                Get(result, k) = Get(objs[2], k)

\* a document without empty/absent scalars
NoEmptyScalars(data) == \A d \in Nodes(data) : IsScalar(d) => Truthy(d)

\* C5: for a document d without empty/absent scalars, merge(d, d) under the
\* Default Strategy is equal to d, also when d contains lists, nested dicts,
\* empty dicts or empty lists.
C5_MergeWithSelf ==
    /\ Returned /\ Len(objs) = 2 /\ objs[1] = objs[2]
    /\ assembler = DefaultAssembler
    /\ NoEmptyScalars(objs[1])
    => result = objs[1]

\* C7: under the Default Strategy, merging a non-empty document d with an
\* absent/empty one, in either order, raises nothing and returns d; merging
\* two absent/empty documents returns an absent/empty one.
C7_MergeWithEmpty ==
    Len(objs) = 2 /\ assembler = DefaultAssembler
    /\ (~Truthy(objs[1]) \/ ~Truthy(objs[2])) =>
        /\ raised = "none"
        /\ Returned /\ Truthy(objs[1]) => result = objs[1]
        /\ Returned /\ Truthy(objs[2]) => result = objs[2]
        /\ Returned /\ ~Truthy(objs[1]) /\ ~Truthy(objs[2]) => ~Truthy(result)

Max(S) == CHOOSE n \in S : \A m \in S : m <= n
Min(S) == CHOOSE n \in S : \A m \in S : n <= m

\* C2: under the Default Strategy, for two or more Map documents and a key k
\* whose value is a scalar in every document that has k, the result's value at
\* k is that of the last document whose value at k is non-empty, and that of
\* the first document that has k if all of them are empty/absent.
C2_LastNonEmptyWins ==
    /\ Returned /\ assembler = DefaultAssembler
    /\ \A n \in 1..Len(objs) : IsDict(objs[n])
    => \A k \in UNION {KeySet(objs[n]) : n \in 1..Len(objs)} :
         LET having == {n \in 1..Len(objs) : HasKey(objs[n], k)}
             nonempty == {n \in having : Truthy(Get(objs[n], k))}
         IN  (\A n \in having : IsScalar(Get(objs[n], k))) =>
                /\ IsDict(result)
                /\ HasKey(result, k)
                /\ Get(result, k) =
                     IF nonempty # {} THEN Get(objs[Max(nonempty)], k)
                     ELSE Get(objs[Min(having)], k)

C2_Witness ==
    /\ objs = <<DictV(<<Entry(KeyA, IntV(1))>>), DictV(<<Entry(KeyA, IntV(2))>>),
                DictV(<<Entry(KeyA, NoneV)>>)>>
    /\ Returned
    /\ result = DictV(<<Entry(KeyA, IntV(2))>>)

IsScalarList(data) ==
    IsList(data) /\ \A n \in 1..Len(data.items) : IsScalar(data.items[n])

RECURSIVE NotSameAtIndex(_, _, _)
\* the elements of list2, from the n-th on, that do not have the stringified
\* content of the element of list1 at the same index
NotSameAtIndex(list1, list2, n) ==
    IF n > Len(list2) THEN <<>>
    ELSE (IF n <= Len(list1) /\ StrOf(list1[n]) = StrOf(list2[n])
          THEN <<>> ELSE <<list2[n]>>)
         \o NotSameAtIndex(list1, list2, n + 1)

\* what C3 says the merge of two lists of scalars at the same path is
Concatenated(list1, list2) ==
    ListV(list1.items \o NotSameAtIndex(list1.items, list2.items, 1))

\* C3: under the Default Strategy, two Sequences of scalars at the same path
\* merge into the elements of the first, in order, followed by the elements
\* of the second that do not have the stringified content of the element of
\* the first at the same index.
C3_ListConcat ==
    Returned /\ Len(objs) = 2 /\ assembler = DefaultAssembler =>
        /\ IsScalarList(objs[1]) /\ IsScalarList(objs[2])
            => result = Concatenated(objs[1], objs[2])
        /\ IsDict(objs[1]) /\ IsDict(objs[2]) =>
            \A k \in KeySet(objs[1]) \cap KeySet(objs[2]) :
                IsScalarList(Get(objs[1], k)) /\ IsScalarList(Get(objs[2], k))
                => /\ IsDict(result) /\ HasKey(result, k)
                   /\ Get(result, k) = Concatenated(Get(objs[1], k), Get(objs[2], k))

\* the elements of a list that carry user_id with the value v
WithUserId(list, v) ==
    {n \in 1..Len(list.items) :
        CarriesUserId(list.items[n]) /\ Get(list.items[n], KeyUserId) = v}

\* C4: under the Keyed Strategy with a matching pattern, two Map elements with
\* the same value of the key field, in sequences at the same path of two
\* documents, collapse into exactly one element of the merged sequence,
\* whatever their indices and other fields; its fields are the union of the
\* fields of both, and elements with different key values stay separate
\* elements (every key value of the inputs has exactly one element of its own).
C4_KeyedCollapse ==
    /\ Returned /\ Len(objs) = 2 /\ assembler = UsersAssembler
    /\ \A n \in 1..2 : IsDict(objs[n]) /\ HasKey(objs[n], KeyUsers)
                       /\ IsList(Get(objs[n], KeyUsers))
    => LET list1 == Get(objs[1], KeyUsers)
           list2 == Get(objs[2], KeyUsers)
           merged == Get(result, KeyUsers)
       IN  /\ IsList(merged)
           /\ \A v \in UserIds :
                WithUserId(list1, v) \cup WithUserId(list2, v) # {}
                => Cardinality(WithUserId(merged, v)) = 1
           /\ \A v \in UserIds :
                \A m \in WithUserId(list1, v), n \in WithUserId(list2, v) :
                    \A j \in WithUserId(merged, v) :
                        KeySet(merged.items[j])
                            = KeySet(list1.items[m]) \cup KeySet(list2.items[n])

\* the first document has just been converted
FirstConverted == pc = "fold" /\ idx = 2

\* no Map of the document has a key set that the assembler's finder accepts
\* (the empty key set is one that it accepts)
NoFoundKeys(data, asm) ==
    \A d \in Nodes(data) : IsDict(d) => ~Finder(asm, Keys(d))

RECURSIVE DistinctKeys(_, _, _)
\* converter gives the elements of every list of the document, each with its
\* path, keys that differ from one another
DistinctKeys(data, path, asm) ==
    CASE IsDict(data) ->
            \A n \in 1..Len(data.items) :
                DistinctKeys(data.items[n].val,
                             Append(path, KeyStr(data.items[n].key)), asm)
      [] IsList(data) ->
            /\ \A m, n \in 1..Len(data.items) :
                    m # n => Converter(asm, data.items[m], Append(path, IndexSeg(m - 1)))
                             # Converter(asm, data.items[n], Append(path, IndexSeg(n - 1)))
            /\ \A n \in 1..Len(data.items) :
                    DistinctKeys(data.items[n], Append(path, IndexSeg(n - 1)), asm)
      [] OTHER -> TRUE

\* C6 as stated: for the Default and the Keyed Strategy and a document d with
\* no Map whose key set the finder accepts, bringing the converted d back to
\* its regular form gives d.
C6_RoundTripAny ==
    FirstConverted /\ NoFoundKeys(objs[1], assembler) =>
        GetRegularData(merged_data, assembler) = objs[1]

\* C6, amended: the same, for the documents in which the converter gives the
\* elements of each list keys that differ from one another; the Default
\* Strategy does so in every document.
C6_RoundTrip ==
    FirstConverted =>
        /\ assembler = DefaultAssembler => DistinctKeys(objs[1], <<>>, assembler)
        /\ NoFoundKeys(objs[1], assembler) /\ DistinctKeys(objs[1], <<>>, assembler)
            => GetRegularData(merged_data, assembler) = objs[1]

C6_Witness ==
    /\ FirstConverted
    /\ assembler = UsersAssembler
    /\ objs[1] = DictV(<<Entry(KeyUsers, ListV(<<
            DictV(<<Entry(KeyUserId, IntV(1)), Entry(Key("name"), StrV("Alex"))>>),
            DictV(<<Entry(KeyUserId, IntV(2)), Entry(Key("surname"), StrV("Morgan"))>>)
         >>))>>)
    /\ Keys(Get(merged_data, KeyUsers)) = <<Token("1+/users/"), Token("2+/users/")>>
    /\ GetRegularData(merged_data, assembler) = objs[1]

\* the objects of the documents of the call
InputObjects == UNION {Reach(heap, args[n]) : n \in 1..Len(args)}

\* C8: merge_data never changes its documents: in every state of a call, of
\* any number of documents, with either assembler, returning or raising, every
\* document is the value it was at the call, and the dicts and lists of the
\* result are objects that no document holds
C8_InputsUnchanged ==
    /\ \A n \in 1..Len(objs) : Deref(heap, args[n]) = objs[n]
    /\ Returned => Reach(heap, result_ref) \cap InputObjects = {}
\* a call with the users' assembler has returned the users of two documents,
\* which is neither document
C8_Witness ==
    /\ Returned
    /\ assembler = UsersAssembler
    /\ Len(objs) >= 2
    /\ \A n \in 1..2 : objs[n] \in UsersDocs /\ Cardinality(Reach(heap, args[n])) >= 3
    /\ IsDictAt(heap, result_ref)
    /\ result # objs[1] /\ result # objs[2]

\* the store and the values agree: the references of merge_data stand for the
\* values of merged_data and of the result
StoreAgrees ==
    /\ merged_data = Deref(heap, merged_ref)
    /\ result = Deref(heap, result_ref)

\* the constructor has returned or raised
Constructed == ctor.at \in {"constructed", "TypeError", "AssemblerImplementationError"}
\* the class leaves out one of converter, finder, handler
LeavesOut(cls) == \E m \in {"converter", "finder", "handler"} : cls[m].abstract
\* the number of parameters a method declares, not counting self
Declared(method) == IF method.argcount = 0 THEN 0 ELSE method.argcount - 1
WrongArity(cls) ==
    \/ Declared(cls.converter) # 2
    \/ Declared(cls.finder) # 1
    \/ Declared(cls.handler) # 2

\* C11: the constructor of a class that defines converter, finder and handler
\* raises AssemblerImplementationError if and only if one of them declares a
\* number of parameters other than 2, 1 and 2; it raises in the constructor,
\* so that there is no instance and merge_data is not entered; DefaultAssembler
\* and UniqueRegexpAssembler construct without error
C11_ContractError ==
    /\ Constructed /\ ~LeavesOut(ctor.cls)
       => (ctor.at = "AssemblerImplementationError" <=> WrongArity(ctor.cls))
    /\ WrongArity(ctor.cls) => assembler = NoAssembler /\ pc = "construct"
    /\ Constructed /\ ctor.cls \in ShippedClasses
       => ctor.at = "constructed" /\ assembler = Instance(ctor.cls)
\* a class whose handler declares no parameter but self (InvalidHandler of the
\* tests) has raised at the third validation
C11_Witness ==
    /\ ctor.at = "AssemblerImplementationError"
    /\ ctor.cls.converter = Method(3)
    /\ ctor.cls.finder = Method(2)
    /\ ctor.cls.handler = Method(1)
    /\ assembler = NoAssembler

\* C12: a class that leaves out one of converter, finder, handler is never
\* instantiated: its construction raises TypeError, not
\* AssemblerImplementationError, before any validation of the parameters and
\* before merge_data
C12_Incomplete ==
    LeavesOut(ctor.cls)
    => /\ ctor.at \in {"new", "TypeError"}
       /\ assembler = NoAssembler
       /\ pc = "construct"
\* a class without finder whose converter has a parameter too few has raised
\* TypeError
C12_Witness ==
    /\ ctor.at = "TypeError"
    /\ ctor.cls.finder.abstract
    /\ ctor.cls.converter = Method(2)

\* a regular expression of the assembler matches the path, and key is the
\* unique key of the first that does
FirstMatch(asm, path, key) ==
    \E n \in 1..Len(asm.keys_paths_dict) :
        /\ Match(asm.keys_paths_dict[n].regexp, path)
        /\ \A m \in 1..(n - 1) : ~Match(asm.keys_paths_dict[m].regexp, path)
        /\ asm.keys_paths_dict[n].unique_key = key
\* the key made from the value of the key field and the path of the list
KeyFieldToken(data, path, key) ==
    Token(StrOf(Get(data, Key(key))) \o "+" \o PathStr(BaseListPath(path)))
ConfiguredKeys(asm) ==
    {asm.keys_paths_dict[n].unique_key : n \in 1..Len(asm.keys_paths_dict)}

\* C13: the converter of a UniqueRegexpAssembler never raises; it returns the
\* key of DefaultAssembler.converter for the same data and path when no
\* regular expression matches the path, when the data is not a dict and when
\* the data has not the key of the first match; it returns another key only
\* when a regular expression matches and the data is a dict with that key,
\* and then the key made from the value of that key
C13_Fallback ==
    conv.at # "call" /\ conv.at # "none"
    => LET keyed == \E key \in ConfiguredKeys(assembler) :
                        /\ FirstMatch(assembler, conv.path, key)
                        /\ IsDict(conv.data) /\ HasKey(conv.data, Key(key))
       IN  /\ conv.at = "returned"
           /\ ~keyed => conv.hex_hash = DefaultConverter(conv.data, conv.path)
           /\ conv.hex_hash # DefaultConverter(conv.data, conv.path)
              => \E key \in ConfiguredKeys(assembler) :
                    /\ FirstMatch(assembler, conv.path, key)
                    /\ IsDict(conv.data) /\ HasKey(conv.data, Key(key))
                    /\ conv.hex_hash = KeyFieldToken(conv.data, conv.path, key)
\* the converter has returned the key of the DefaultAssembler for a list at a
\* path that matches
C13_Witness ==
    /\ conv.at = "returned"
    /\ assembler = UsersAssembler
    /\ conv.path = <<"users", IndexSeg(0)>>
    /\ IsList(conv.data)
    /\ conv.hex_hash = DefaultConverter(conv.data, conv.path)

RECURSIVE ListElements(_, _)
\* the elements of the lists of a document, at any depth, each with its path
ListElements(data, path) ==
    CASE IsDict(data) ->
            UNION {ListElements(data.items[n].val,
                                Append(path, KeyStr(data.items[n].key))) :
                    n \in 1..Len(data.items)}
      [] IsList(data) ->
            UNION {{[elem |-> data.items[n], path |-> Append(path, IndexSeg(n - 1))]}
                   \cup ListElements(data.items[n], Append(path, IndexSeg(n - 1))) :
                    n \in 1..Len(data.items)}
      [] OTHER -> {}
\* the keys of a converted document that the converter made, at any depth
TokensIn(converted) ==
    {k \in UNION {KeySet(d) : d \in {c \in Nodes(converted) : IsDict(c)}} : k.sha}
\* the key field that the first regular expression matching match_path names,
\* if the element has it
KeyFields(asm, elem, match_path) ==
    {key \in ConfiguredKeys(asm) :
        /\ FirstMatch(asm, match_path, key)
        /\ IsDict(elem) /\ HasKey(elem, Key(key))}
\* the key of an element at path, by the regular expressions applied to
\* match_path
KeyBy(asm, elem, path, match_path) ==
    IF KeyFields(asm, elem, match_path) = {} THEN DefaultConverter(elem, path)
    ELSE KeyFieldToken(elem, path, CHOOSE key \in KeyFields(asm, elem, match_path) : TRUE)
IsIndex(seg) == seg \in {IndexSeg(n) : n \in 0..MaxLen}
ListPath(path) == SubSeq(path, 1, Len(path) - 1)
\* the list of the element at path lies under an element of a list whose own
\* path a regular expression matches
NestedUnderMatch(asm, path) ==
    \E j \in 0..(Len(path) - 3) :
        /\ IsIndex(path[j + 1])
        /\ \E key \in ConfiguredKeys(asm) : FirstMatch(asm, SubSeq(path, 1, j), key)

\* C14 as stated: the regular expressions are matched against the path of the
\* list: the key field is applied to the elements of the lists whose own path
\* matches, and not to those of lists nested deeper under such a list
C14_ParentPath ==
    FirstConverted /\ assembler \in KeyedAssemblers =>
        TokensIn(merged_data) =
            {IF NestedUnderMatch(assembler, x.path) THEN DefaultConverter(x.elem, x.path)
             ELSE KeyBy(assembler, x.elem, x.path, ListPath(x.path)) :
                x \in ListElements(objs[1], <<>>)}

\* C14, amended: the regular expressions are matched, from the start of the
\* path on, against the path of the element itself: the key field is applied
\* to every element of a list that has it and whose own path a regular
\* expression matches, those of lists nested deeper included
C14_ElementPath ==
    FirstConverted /\ assembler \in KeyedAssemblers =>
        TokensIn(merged_data) =
            {KeyBy(assembler, x.elem, x.path, x.path) : x \in ListElements(objs[1], <<>>)}
\* the users' assembler has converted a document in which a user has a list
\* of its own, and an element of that list has the key of its user_id
C14_Witness ==
    /\ FirstConverted
    /\ assembler = UsersAssembler
    /\ \E x \in ListElements(objs[1], <<>>) :
            /\ Len(x.path) = 4
            /\ IsDict(x.elem) /\ HasKey(x.elem, KeyUserId)
            /\ KeyFieldToken(x.elem, x.path, "user_id") \in TokensIn(merged_data)
            /\ DefaultConverter(x.elem, x.path) \notin TokensIn(merged_data)

RECURSIVE StandsFor(_, _, _)
\* converted stands for data: a scalar is itself, a dict has the same keys in
\* the same order over what stands for its values, and a list is a dict whose
\* keys the finder accepts and whose values each stand for one of its elements
StandsFor(converted, data, asm) ==
    CASE IsDict(data) ->
            /\ IsDict(converted)
            /\ Keys(converted) = Keys(data)
            /\ \A n \in 1..Len(data.items) :
                    StandsFor(converted.items[n].val, data.items[n].val, asm)
      [] IsList(data) ->
            /\ IsDict(converted)
            /\ Finder(asm, Keys(converted))
            /\ data.items = <<>> <=> converted.items = <<>>
            /\ \A n \in 1..Len(converted.items) :
                    \E m \in 1..Len(data.items) :
                        StandsFor(converted.items[n].val, data.items[m], asm)
      [] OTHER -> converted = data

\* C15: with either assembler, the converted form of a document has no list
\* at any depth, keeps the keys of its dicts in their order and its scalars as
\* they are, and has for every list, an empty one too, a dict whose keys the
\* finder of the assembler accepts
C15_Converted ==
    FirstConverted =>
        /\ \A d \in Nodes(merged_data) : ~IsList(d)
        /\ StandsFor(merged_data, objs[1], assembler)
\* the users' assembler has converted a dict of two users to a dict of two
\* keys that the finder accepts
C15_Witness ==
    /\ FirstConverted
    /\ assembler = UsersAssembler
    /\ IsDict(objs[1]) /\ HasKey(objs[1], KeyUsers)
    /\ Len(Get(merged_data, KeyUsers).items) = 2
    /\ Finder(assembler, Keys(Get(merged_data, KeyUsers)))

\* the keys of the dicts of a document, at any depth
AllKeys(data) == UNION {KeySet(d) : d \in {c \in Nodes(data) : IsDict(c)}}
\* no dict of the documents has a key of the form of the converter's keys
NoTokenKeys(os) == \A n \in 1..Len(os) : \A k \in AllKeys(os[n]) : ~k.sha

\* C16: when no dict of the documents has a key of the form of the converter's
\* keys and merge_data returns, no dict of the result has such a key, also
\* when a list of one document meets a non-empty dict of another under the
\* same key
C16_NoTokenInResult ==
    Returned /\ NoTokenKeys(objs) => \A k \in AllKeys(result) : ~k.sha

\* merge_data(merge_data(d1, d2), d3)
Iterated(os, asm) ==
    LET first == MergeData(<<os[1], os[2]>>, asm)
    IN  IF first.raised # "none" THEN first
        ELSE MergeData(<<first.val, os[3]>>, asm)
\* no list of the documents has an element
NoElements(os) ==
    \A n \in 1..Len(os) : \A l \in Nodes(os[n]) : IsList(l) => l.items = <<>>

====
